---- MODULE Spec2Model ----
(***************************************************************************)
(* Model of diagnostic_primers/sge_jobs.py: the Job and JobGroup classes   *)
(* of the SGE job-dependency code (dependency lists, the JobGroup control  *)
(* script with its task-index decoding, and the qstat polling loop of      *)
(* wait()).                                                                *)
(*                                                                         *)
(* Two objects are modelled, one of each class: the Job "job" and the      *)
(* JobGroup "group".  Durations are counted in units of 10 ms, so that     *)
(* SGE_WAIT = 0.01 s is the integer 1 and the 60 s ceiling is 6000;        *)
(* doubling and min() are exact on the floats these integers stand for.    *)
(***************************************************************************)
EXTENDS Integers, Sequences, FiniteSets, TLC

VARIABLES
    created,        \* the objects constructed so far
    command,        \* [Nodes -> STRING]        self.command
    dependencies,   \* [Nodes -> Seq(Nodes)]    self.dependencies (a Python list)
    submitted,      \* [Nodes -> BOOLEAN]       self.submitted
    arguments,      \* JobGroup.arguments: a sequence of [key, values] items
    script,         \* [Nodes -> Seq(Line)]     self.script, line by line
    tasks,          \* JobGroup.tasks
    calls,          \* history: number of generate_script calls so far
    call,           \* history: the last call made and how it ended
    waitst          \* the wait() call in progress or last finished

vars == <<created, command, dependencies, submitted, arguments, script,
          tasks, calls, call, waitst>>

----------------------------------------------------------------------------
(* Bounds of the model *)

MaxVals == 3
MaxCalls == 3
MaxDeps == 3
MaxPolls == 15

----------------------------------------------------------------------------
(* Objects and inputs *)

Jobs == {"job"}
Groups == {"group"}
Nodes == Jobs \cup Groups

Commands == {"my_cmd $foo $bar"}

\* Parameter names, in the order the arguments dict is built with.
Keys == <<"foo", "bar", "baz">>
KeySet == {Keys[k] : k \in 1..Len(Keys)}

\* The values a parameter may take.  Values are shell words (non-empty, no
\* white space), as the unquoted array definition of the script requires.
ValuesOf(key) ==
    CASE key = "foo" -> {"1", "2"}
      [] key = "bar" -> {"a", "b"}
      [] OTHER       -> {"x"}

SeqsUpTo(S, n) == UNION {[1..m -> S] : m \in 0..n}

Item(key, values) == [key |-> key, values |-> values]

\* All dicts whose keys are a prefix of Keys, every parameter with 0..MaxVals
\* values: a sequence of items in dict (insertion) order.
RECURSIVE Mappings(_)
Mappings(n) ==
    IF n = 0 THEN {<<>>}
    ELSE {Append(m, Item(Keys[n], vs)) :
             m \in Mappings(n - 1), vs \in SeqsUpTo(ValuesOf(Keys[n]), MaxVals)}

ExampleMapping ==
    <<Item("foo", <<"1", "2">>), Item("bar", <<"a", "b", "c">>)>>

AllMappings == UNION {Mappings(n) : n \in 0..Len(Keys)} \cup {ExampleMapping}

\* The arguments parameter of JobGroup.__init__: None, or a dict.
NoArguments == [isNone |-> TRUE, mapping |-> <<>>]
ArgumentInputs ==
    {NoArguments} \cup {[isNone |-> FALSE, mapping |-> m] : m \in AllMappings}

Range(s) == {s[i] : i \in 1..Len(s)}

NoError == "none"
NoCall == [op |-> "none", self |-> "job", node |-> "job", error |-> NoError]
Call(op, self, node, error) ==
    [op |-> op, self |-> self, node |-> node, error |-> error]

\* qstat's return codes: 0 the job is active, 1 the job does not exist,
\* 2 any other failure of the query.
ReturnCodes == {0, 1, 2}

\* SGE_WAIT = 0.01 s and the ceiling of 60 s, in units of 10 ms.
SGE_WAIT == 1
WaitCeiling == 6000

\* The interval a caller passes to wait(); time.sleep rejects a negative one.
StartIntervals == {-1, 0, SGE_WAIT, 3, 4500, WaitCeiling, 7000}

NoWait == [pc |-> "idle", node |-> "job", start |-> 0, interval |-> 0,
           sleeps |-> <<>>, polls |-> <<>>]

Min(a, b) == IF a <= b THEN a ELSE b

----------------------------------------------------------------------------
(* The script text, one record per line *)

Line(op, key, n, words) == [op |-> op, key |-> key, n |-> n, words |-> words]

\* let "TASK_ID=$SGE_TASK_ID - 1"
TaskIdLine == Line("let TASK_ID=$SGE_TASK_ID - 1", "", 0, <<>>)
\* <key>_ARRAY=( v1 v2 ...  )
ArrayLine(key, values) == Line("_ARRAY=(", key, 0, values)
BlankLine == Line("", "", 0, <<>>)
\* let "<key>_INDEX=$TASK_ID % <count>"
IndexLine(key, count) == Line("let _INDEX=$TASK_ID %", key, count, <<>>)
\* <key>=${<key>_ARRAY[$<key>_INDEX]}
SelectLine(key) == Line("=${_ARRAY[$_INDEX]}", key, 0, <<>>)
\* let "TASK_ID=$TASK_ID / <count>"
DivLine(count) == Line("let TASK_ID=$TASK_ID /", "", count, <<>>)
CommandLine(cmd) == Line("command", cmd, 0, <<>>)

\* A decoding loop that forgets to divide TASK_ID by the count.
DecodeLinesNoDiv(key, count) == <<IndexLine(key, count), SelectLine(key)>>

\* The three lines the decoding loop adds for one parameter.
DecodeLines(key, count) ==
    <<IndexLine(key, count), SelectLine(key), DivLine(count)>>

RECURSIVE ArrayDefinitions(_)
ArrayDefinitions(args) ==
    IF args = <<>> THEN <<>>
    ELSE <<ArrayLine(Head(args).key, Head(args).values)>>
             \o ArrayDefinitions(Tail(args))

RECURSIVE DecodingLogic(_)
DecodingLogic(args) ==
    IF args = <<>> THEN <<>>
    ELSE DecodeLines(Head(args).key, Len(Head(args).values))
             \o DecodingLogic(Tail(args))

\* A total that adds the lengths up instead of multiplying them.
TotalTasksSum(args) ==
    LET RECURSIVE Sum(_)
        Sum(a) == IF a = <<>> THEN 0 ELSE Len(Head(a).values) + Sum(Tail(a))
    IN  Sum(args)

\* total = 1; for each key, in order: total *= len(values)
RECURSIVE TotalTasks(_)
TotalTasks(args) ==
    IF args = <<>> THEN 1
    ELSE TotalTasks(SubSeq(args, 1, Len(args) - 1))
             * Len(args[Len(args)].values)

\* A generate_script that does not reset self.script before building.
RenderScriptAppending(old, cmd, args) ==
    old \o <<TaskIdLine>> \o ArrayDefinitions(args) \o <<BlankLine>>
        \o DecodingLogic(args) \o <<BlankLine, CommandLine(cmd)>>

\* The text generate_script leaves in self.script; old is the text the
\* field held before the call, which the first statement discards.
RenderScript(old, cmd, args) ==
    LET start == <<>>
    IN  start \o <<TaskIdLine>> \o ArrayDefinitions(args) \o <<BlankLine>>
              \o DecodingLogic(args) \o <<BlankLine, CommandLine(cmd)>>

----------------------------------------------------------------------------
(* What the emitted script computes when the shell runs it *)

ShellInit(sgeTaskId) ==
    [SGE_TASK_ID |-> sgeTaskId,
     TASK_ID     |-> 0,
     array       |-> [k \in KeySet |-> <<>>],
     index       |-> [k \in KeySet |-> 0],
     value       |-> [k \in KeySet |-> ""]]

\* The effect of one script line on the shell's variables.
ExecLine(line, env) ==
    CASE line = TaskIdLine ->
            [env EXCEPT !.TASK_ID = env.SGE_TASK_ID - 1]
      [] line.op = ArrayLine("", <<>>).op ->
            [env EXCEPT !.array[line.key] = line.words]
      [] line.op = IndexLine("", 0).op ->
            [env EXCEPT !.index[line.key] = env.TASK_ID % line.n]
      [] line.op = SelectLine("").op ->
            \* an index past the end of a shell array expands to nothing
            [env EXCEPT !.value[line.key] =
                IF env.index[line.key] < Len(env.array[line.key])
                THEN env.array[line.key][env.index[line.key] + 1]
                ELSE ""]
      [] line.op = DivLine(0).op ->
            [env EXCEPT !.TASK_ID = env.TASK_ID \div line.n]
      [] OTHER -> env

RECURSIVE RunScript(_, _)
RunScript(lines, env) ==
    IF lines = <<>> THEN env
    ELSE RunScript(Tail(lines), ExecLine(Head(lines), env))

\* The shell variables after the script ran as task i (0-based; the
\* scheduler numbers tasks from 1).
Decode(i) == RunScript(script["group"], ShellInit(i + 1))

----------------------------------------------------------------------------
(* Construction *)

\* Job.__init__(name, command)
JobInit(n, cmd) ==
    /\ n \in Jobs
    /\ n \notin created
    /\ created' = created \cup {n}
    /\ command' = [command EXCEPT ![n] = cmd]
    /\ script' = [script EXCEPT ![n] = <<CommandLine(cmd)>>]
    /\ dependencies' = [dependencies EXCEPT ![n] = <<>>]
    /\ submitted' = [submitted EXCEPT ![n] = FALSE]
    /\ call' = Call("init", n, n, NoError)
    /\ UNCHANGED <<arguments, tasks, calls, waitst>>

\* JobGroup.__init__(name, command, arguments=argIn), generate_script included
JobGroupInit(n, cmd, argIn) ==
    /\ n \in Groups
    /\ n \notin created
    /\ created' = created \cup {n}
    /\ command' = [command EXCEPT ![n] = cmd]
    /\ dependencies' = [dependencies EXCEPT ![n] = <<>>]
    /\ submitted' = [submitted EXCEPT ![n] = TRUE]
    /\ arguments' = IF argIn.isNone THEN <<>> ELSE argIn.mapping
    /\ script' = [script EXCEPT ![n] = RenderScript(script[n], cmd, arguments')]
    /\ tasks' = TotalTasks(arguments')
    /\ calls' = 1
    /\ call' = Call("init", n, n, NoError)
    /\ UNCHANGED waitst

\* JobGroup.generate_script(), called again on a constructed group
GenerateScript(n) ==
    /\ n \in Groups
    /\ n \in created
    /\ calls < MaxCalls
    /\ script' = [script EXCEPT
                     ![n] = RenderScript(script[n], command[n], arguments)]
    /\ tasks' = TotalTasks(arguments)
    /\ calls' = calls + 1
    /\ call' = Call("generate_script", n, n, NoError)
    /\ UNCHANGED <<created, command, dependencies, submitted, arguments, waitst>>

----------------------------------------------------------------------------
(* Dependencies *)

\* The first position of x in list (x occurs in list).
FirstIndex(list, x) ==
    CHOOSE i \in 1..Len(list) : list[i] = x /\ \A j \in 1..(i - 1) : list[j] # x

\* A remove that drops every occurrence, as removal from a set would.
ListRemoveAll(list, x) ==
    IF x \in Range(list)
    THEN [error |-> NoError, list |-> SelectSeq(list, LAMBDA e : e # x)]
    ELSE [error |-> "ValueError", list |-> list]

\* A remove that ignores a missing element, as set.discard would.
ListDiscard(list, x) ==
    IF x \in Range(list)
    THEN [error |-> NoError,
          list  |-> SubSeq(list, 1, FirstIndex(list, x) - 1)
                      \o SubSeq(list, FirstIndex(list, x) + 1, Len(list))]
    ELSE [error |-> NoError, list |-> list]

\* Python's list.remove(x): drops the first occurrence of x, and raises
\* ValueError, changing nothing, when x does not occur.
ListRemove(list, x) ==
    IF x \in Range(list)
    THEN [error |-> NoError,
          list  |-> SubSeq(list, 1, FirstIndex(list, x) - 1)
                      \o SubSeq(list, FirstIndex(list, x) + 1, Len(list))]
    ELSE [error |-> "ValueError", list |-> list]

\* Job.add_dependency(job) and JobGroup.add_dependency(job)
AddDependency(self, node) ==
    /\ self \in created
    /\ node \in created
    /\ Len(dependencies[self]) < MaxDeps
    /\ dependencies' = [dependencies EXCEPT ![self] = Append(@, node)]
    /\ call' = Call("add_dependency", self, node, NoError)
    /\ UNCHANGED <<created, command, submitted, arguments, script, tasks,
                   calls, waitst>>

\* Job.remove_dependency(job) and JobGroup.remove_dependency(job)
RemoveDependency(self, node) ==
    /\ self \in created
    /\ node \in created
    /\ LET r == ListRemove(dependencies[self], node)
       IN  /\ dependencies' = [dependencies EXCEPT ![self] = r.list]
           /\ call' = Call("remove_dependency", self, node, r.error)
    /\ UNCHANGED <<created, command, submitted, arguments, script, tasks,
                   calls, waitst>>

----------------------------------------------------------------------------
(* wait() *)

\* interval = min(2 * interval, 60)
NextInterval(interval) == Min(2 * interval, WaitCeiling)

\* Entry of Job.wait(interval) and JobGroup.wait(interval): finished = False
WaitCall(n, interval) ==
    /\ n \in created
    /\ waitst.pc # "polling"
    /\ waitst' = [pc |-> "polling", node |-> n, start |-> interval,
                  interval |-> interval, sleeps |-> <<>>, polls |-> <<>>]
    /\ call' = Call("wait", n, n, NoError)
    /\ UNCHANGED <<created, command, dependencies, submitted, arguments,
                   script, tasks, calls>>

\* One turn of the loop: sleep, grow the interval, run qstat -j <name>, and
\* leave the loop when its return code is truthy.
WaitPoll(rc) ==
    /\ waitst.pc = "polling"
    /\ Len(waitst.sleeps) < MaxPolls
    /\ IF waitst.interval < 0
       THEN \* time.sleep raises ValueError
            /\ waitst' = [waitst EXCEPT !.pc = "raised"]
            /\ call' = Call("wait", waitst.node, waitst.node, "ValueError")
       ELSE /\ waitst' = [waitst EXCEPT
                             !.sleeps = Append(@, waitst.interval),
                             !.interval = NextInterval(@),
                             !.polls = Append(@, rc),
                             !.pc = IF rc # 0 THEN "returned" ELSE "polling"]
            /\ call' = Call("wait", waitst.node, waitst.node, NoError)
    /\ UNCHANGED <<created, command, dependencies, submitted, arguments,
                   script, tasks, calls>>

----------------------------------------------------------------------------
(* Initial state and specifications *)

Init ==
    /\ created = {}
    /\ command = [n \in Nodes |-> ""]
    /\ dependencies = [n \in Nodes |-> <<>>]
    /\ submitted = [n \in Nodes |-> FALSE]
    /\ arguments = <<>>
    /\ script = [n \in Nodes |-> <<>>]
    /\ tasks = 0
    /\ calls = 0
    /\ call = NoCall
    /\ waitst = NoWait

NextGroup ==
    \/ /\ "group" \notin created
       /\ \E cmd \in Commands, argIn \in ArgumentInputs :
              JobGroupInit("group", cmd, argIn)
    \/ GenerateScript("group")

SpecGroup == Init /\ [][NextGroup]_vars

\* Both objects, their dependency lists and the regeneration of the script.
Next ==
    \/ \E cmd \in Commands : JobInit("job", cmd)
    \/ \E cmd \in Commands : JobGroupInit("group", cmd, NoArguments)
    \/ GenerateScript("group")
    \/ \E self \in Nodes, node \in Nodes : AddDependency(self, node)
    \/ \E self \in Nodes, node \in Nodes : RemoveDependency(self, node)

Spec == Init /\ [][Next]_vars

\* Both objects and a caller waiting for one of them.
NextWait ==
    \/ \E cmd \in Commands : JobInit("job", cmd)
    \/ \E cmd \in Commands : JobGroupInit("group", cmd, NoArguments)
    \/ \E n \in Nodes, interval \in StartIntervals : WaitCall(n, interval)
    \/ \E rc \in ReturnCodes : WaitPoll(rc)

SpecWait == Init /\ [][NextWait]_vars

----------------------------------------------------------------------------
(* Properties of the JobGroup script, under SpecGroup *)

GroupBuilt == "group" \in created

\* The index combinations of the arguments: one position (0-based) per
\* parameter, i.e. the cartesian product of the value sequences.
IndexProduct(args) ==
    {c \in [1..Len(args) -> 0..(MaxVals + 1)] :
        \A k \in 1..Len(args) : c[k] < Len(args[k].values)}

\* What task i decodes to: per parameter, the array index and the value.
DecodedIndex(i) ==
    LET env == Decode(i)
    IN  [k \in 1..Len(arguments) |-> env.index[arguments[k].key]]

DecodedValues(i) ==
    LET env == Decode(i)
    IN  [k \in 1..Len(arguments) |-> env.value[arguments[k].key]]

\* The decoding of every task index, as a set of (index, values) pairs.
DecodedTasks ==
    {LET env == Decode(i)
     IN  [task   |-> i,
          index  |-> [k \in 1..Len(arguments) |-> env.index[arguments[k].key]],
          values |-> [k \in 1..Len(arguments) |-> env.value[arguments[k].key]]]
       : i \in 0..(tasks - 1)}

DistinctValues(args) ==
    \A k \in 1..Len(args) :
        Cardinality(Range(args[k].values)) = Len(args[k].values)

\* C1: the decoding the generated script performs maps the task indices
\* 0..tasks-1 one-to-one onto the cartesian product of the value sequences:
\* every index decodes to a combination of the product and to the values at
\* its positions, different indices decode to different combinations, every
\* combination is decoded from some index; for foo=[1,2], bar=[a,b,c], index
\* 0 decodes to (1, a) and index 5 to (2, c).
DecodingIsBijection ==
    GroupBuilt =>
        LET decoded == DecodedTasks
            indexImage == {d.index : d \in decoded}
            valueImage == {d.values : d \in decoded}
        IN  /\ indexImage = IndexProduct(arguments)
            /\ Cardinality(indexImage) = tasks
            /\ \A d \in decoded : \A k \in 1..Len(arguments) :
                   d.values[k] = arguments[k].values[d.index[k] + 1]
            /\ DistinctValues(arguments) => Cardinality(valueImage) = tasks
            /\ arguments = ExampleMapping =>
                   /\ tasks = 6
                   /\ DecodedValues(0) = <<"1", "a">>
                   /\ DecodedValues(5) = <<"2", "c">>

DecodingWitness ==
    /\ GroupBuilt
    /\ Len(arguments) = 3
    /\ tasks = 12
    /\ DecodedIndex(11) = <<1, 2, 1>>

\* C2: once the group is constructed, and after every generate_script call,
\* tasks is the product of the lengths of the value sequences (the number
\* of index combinations), and 1 for an empty mapping.
TasksIsProduct ==
    GroupBuilt =>
        /\ tasks = Cardinality(IndexProduct(arguments))
        /\ arguments = <<>> => tasks = 1

TasksIsProductWitness ==
    /\ GroupBuilt
    /\ call.op = "generate_script"
    /\ Len(arguments) = 2
    /\ Len(arguments[1].values) = 2
    /\ Len(arguments[2].values) = 3
    /\ tasks = 6

\* C8: the tasks count of a constructed group is at least 1, whatever the
\* arguments mapping.
TasksAtLeastOne == GroupBuilt => tasks >= 1

\* C9: a generate_script call on a constructed group leaves script and
\* tasks as they were after the previous call, and changes no other field.
GenerateScriptIdempotent ==
    [][call'.op = "generate_script" =>
          /\ script' = script
          /\ tasks' = tasks
          /\ UNCHANGED <<created, command, dependencies, submitted, arguments>>
      ]_vars

GenerateScriptIdempotentWitness ==
    /\ call.op = "generate_script"
    /\ calls >= 3
    /\ Len(arguments) >= 2
    /\ Len(script["group"]) >= 12

----------------------------------------------------------------------------
(* Properties of the dependency lists and the submitted flag, under Spec *)

\* C5: add_dependency of a job to itself fails with a CycleError, so no
\* dependency list ever contains its own job.
SelfDependencyRejected ==
    /\ \A n \in created : n \notin Range(dependencies[n])
    /\ (call.op = "add_dependency" /\ call.self = call.node)
           => call.error = "CycleError"

\* C6: remove_dependency of a node that is not in the list fails with an
\* error (Python's ValueError) and leaves every dependency list as it was.
FailedRemoveChangesNothing ==
    [][(/\ call'.op = "remove_dependency"
        /\ call'.node \notin Range(dependencies[call'.self]))
          => /\ call'.error # NoError
             /\ dependencies' = dependencies
      ]_vars

FailedRemoveWitness ==
    /\ call.op = "remove_dependency"
    /\ call.error = "ValueError"
    /\ Len(dependencies[call.self]) >= 2
    /\ call.node \notin Range(dependencies[call.self])

\* C7: every constructed object has submitted = FALSE as long as it has not
\* been handed to an executor (no operation of this module does that).
NotSubmittedBeforeExecution == \A n \in created : ~submitted[n]

NoSelfReference == \A n \in Nodes : n \notin Range(dependencies[n])

\* C10, as claimed: a remove_dependency that succeeds leaves the node out of
\* the dependencies and keeps every other dependency.  Stated for lists
\* that hold no self-reference, so that it does not rest on those.
SuccessfulRemoveClearsNode ==
    [][(/\ call'.op = "remove_dependency"
        /\ call'.error = NoError
        /\ NoSelfReference)
          => /\ call'.node \notin Range(dependencies'[call'.self])
             /\ \A m \in Range(dependencies[call'.self]) \ {call'.node} :
                    m \in Range(dependencies'[call'.self])
      ]_vars

\* C10, amended: a remove_dependency that succeeds removes exactly the first
\* occurrence of the node from the list and keeps every other entry, in
\* order; a node added several times needs as many removals.
SuccessfulRemoveDropsFirstOccurrence ==
    [][(call'.op = "remove_dependency" /\ call'.error = NoError)
          => LET old == dependencies[call'.self]
                 new == dependencies'[call'.self]
             IN  /\ \E p \in 1..Len(old) :
                        /\ old[p] = call'.node
                        /\ \A q \in 1..(p - 1) : old[q] # call'.node
                        /\ Len(new) = Len(old) - 1
                        /\ \A q \in 1..Len(new) :
                               new[q] = IF q < p THEN old[q] ELSE old[q + 1]
                 /\ \A n \in Nodes \ {call'.self} :
                        dependencies'[n] = dependencies[n]
      ]_vars

SuccessfulRemoveWitness ==
    /\ call.op = "remove_dependency"
    /\ call.error = NoError
    /\ NoSelfReference
    /\ call.node \in Range(dependencies[call.self])
    /\ Len(dependencies[call.self]) = 2

----------------------------------------------------------------------------
(* Properties of wait(), under SpecWait *)

\* C3: the sleeps of a wait() start at the interval passed, each later one
\* is twice the one before or the ceiling, and none exceeds the ceiling.
SleepsDoubleWithinCeiling ==
    LET s == waitst.sleeps
    IN  /\ Len(s) >= 1 => s[1] = waitst.start
        /\ \A i \in 1..(Len(s) - 1) :
               s[i + 1] = 2 * s[i] \/ s[i + 1] = WaitCeiling
        /\ \A i \in 1..Len(s) : s[i] <= WaitCeiling

\* C4: wait() polls on while qstat answers that the job is active and
\* returns only on the answer that the job does not exist, right after the
\* first such answer; no other outcome of the query makes it return.
WaitReturnsOnlyWhenJobGone ==
    LET p == waitst.polls
    IN  /\ waitst.pc = "polling" => \A i \in 1..Len(p) : p[i] = 0
        /\ waitst.pc = "returned" =>
               /\ Len(p) >= 1
               /\ p[Len(p)] = 1
               /\ \A i \in 1..(Len(p) - 1) : p[i] = 0

====
